---- MODULE Spec2Model ----
(***************************************************************************)
(* Model of the automatic schedule generation of src/app.py                *)
(* (generate_schedule and its nested helpers, check_conflicts).            *)
(*                                                                         *)
(* Dates are day numbers; day 0 is a Monday, so the weekday of day d is    *)
(* d % 7.  Shift ids are short ASCII keys; ShiftName gives, for each key,  *)
(* the syllables of the display name that get_shift_type matches on       *)
(* ("zao" stands for the character "early", "wan" for "late", "zhong" for  *)
(* "mid").  Scores are kept multiplied by 10 so that the 0.1 * hours term  *)
(* is an integer.                                                          *)
(***************************************************************************)
EXTENDS Integers, Sequences, FiniteSets, TLC

VARIABLES
    employees,                    \* st.session_state.employees (dict id -> record)
    shifts,                       \* st.session_state.shifts (dict id -> record)
    shift_list,                   \* list(shifts.keys()): insertion order of the dict
    fixed_early_early_employees,  \* rules.special_rules.fixed_early_early_shift_employees
    monday_no_early_early,        \* rules.special_rules.monday_no_early_early_shift
    rules,                        \* the four advisory values of st.session_state.rules
    start_date, end_date,         \* the two date inputs
    stored,                       \* st.session_state.schedule / SCHEDULE_FILE
    saved,                        \* number of save_json(SCHEDULE_FILE, ...) calls
    schedule,                     \* the local schedule dict of generate_schedule
    employee_workload,            \* emp -> [days, hours]
    employee_shift_cycle,         \* emp -> [current_type, last_work_date, rested]
    pc,                           \* position in generate_schedule
    date_str,                     \* loop variable of the date loops
    shift_i,                      \* index of the shift loop in shift_list_today
    fixed_i,                      \* index of the phase-1 loop over the fixed employees
    iteration,                    \* phase-3 pass number
    vacancies_filled,             \* phase-3 counter
    unassigned_employees,         \* phase-4 sorted list of the date
    emp_i,                        \* index of the phase-4 employee loop
    required_staff,               \* phase-2 local
    current_count,                \* phase-2 local
    run,                          \* history: number of button presses so far
    log,                          \* history: assignments written in this run, in order
    queries,                      \* history: get_required_staff calls of the last step
    depUsed,                      \* history: dates whose dependent requirement was used
    prev_run                      \* history: schedule, log and rules of the first run

vars == <<employees, shifts, shift_list, fixed_early_early_employees,
          monday_no_early_early, rules, start_date, end_date, stored, saved, schedule,
          employee_workload, employee_shift_cycle, pc, date_str, shift_i, fixed_i,
          iteration, vacancies_filled, unassigned_employees, emp_i,
          required_staff, current_count, run, log, queries, depUsed, prev_run>>

inputs == <<employees, shifts, shift_list, fixed_early_early_employees,
            monday_no_early_early, rules, start_date, end_date>>

(***************************************************************************)
(* Bounds of the explored inputs.                                          *)
(***************************************************************************)
MaxSpan == 2          \* end_date is at most start_date + MaxSpan

(***************************************************************************)
(* Dictionaries.                                                           *)
(***************************************************************************)
EmptyDict == [x \in {} |-> 0]

DictSet(f, k, v) == [x \in (DOMAIN f) \cup {k} |-> IF x = k THEN v ELSE f[x]]

DictGet(f, k, default) == IF k \in DOMAIN f THEN f[k] ELSE default

Range(s) == {s[i] : i \in DOMAIN s}

\* Python's comparison of two tuples of numbers of the same length.
LexLess(a, b) ==
    \E k \in 1..Len(a) : a[k] < b[k] /\ \A j \in 1..(k - 1) : a[j] = b[j]

\* Python's list.sort(key=...): ascending by key[i], the key of seq[i], and
\* stable.
StableSort(seq, key) ==
    LET n == Len(seq)
        rank(i) == 1 + Cardinality({j \in 1..n :
                        \/ LexLess(key[j], key[i])
                        \/ (key[j] = key[i] /\ j < i)})
    IN  [p \in 1..n |-> seq[CHOOSE i \in 1..n : rank(i) = p]]

(***************************************************************************)
(* Fixed identifiers of the program.                                       *)
(***************************************************************************)
fixed_early_early_shift == "EE"
early_shift_id == "E"
early_early_shift_id == "EE"
max_iterations == 3
NoDate == -1
NoType == ""

ShiftName ==
    [EE |-> <<"bar2", "zao", "zao", "ban">>,
     E  |-> <<"bar2", "zao", "ban">>,
     L  |-> <<"wan", "ban">>,
     Z  |-> <<"bar1", "zao", "ban">>,
     M  |-> <<"zhong", "ban">>]

flexible_shifts == {early_shift_id}

WeekdayNames == <<"Mon", "Tue", "Wed", "Thu", "Fri", "Sat", "Sun">>

get_weekday_chinese(date) == WeekdayNames[(date % 7) + 1]


(***************************************************************************)
(* The inputs explored.                                                    *)
(***************************************************************************)
EmpOrder == <<"e1", "e2", "e3", "e4", "e5">> \* insertion order of the employees dict

\* Employee records as employee_management stores them.  unavailable_days is
\* the comma-separated text of dates; "date in unavailable_days" is modelled
\* as membership in the set of the dates written there.
Profiles ==
    { [skills |-> {"bar"}, rest_day |-> "Mon", preferred_shifts |-> {},
       unavailable_days |-> {}],
      [skills |-> {}, rest_day |-> "", preferred_shifts |-> {"L"},
       unavailable_days |-> {}],
      [skills |-> {"bar"}, rest_day |-> "", preferred_shifts |-> {},
       unavailable_days |-> {8}] }

\* Shift dicts as shift_management stores them, in insertion order:
\* <<id, required_staff>> (required_staff >= 1 by the form's min_value).
\* "Z" is an early shift of another bar and "M" a mid shift: no required
\* skill and not part of the dynamic rule.
ShiftTables ==
    { <<>>,
      << <<"EE", 1>>, <<"E", 1>>, <<"L", 1>> >>,
      << <<"EE", 2>>, <<"E", 1>>, <<"L", 2>> >>,
      << <<"L", 1>>, <<"E", 2>>, <<"EE", 1>> >>,
      << <<"E", 1>>, <<"L", 1>> >>,
      << <<"EE", 4>>, <<"E", 1>> >>,
      << <<"Z", 1>>, <<"L", 1>> >>,
      << <<"L", 1>>, <<"M", 1>> >>,
      << <<"L", 1>>, <<"EE", 4>> >> }

ShiftRecord(id, staff) ==
    [required_staff |-> staff,
     required_skills |-> IF id = "E" THEN {"bar"} ELSE {},
     duration_hours |-> IF id = "EE" THEN 4 ELSE IF id = "E" THEN 8 ELSE 6]

\* "e9" is an id the rules may name although no such employee exists.
FixedLists == { <<>>, <<"e2", "e9", "e1">> }

StartDates == {6, 7}                   \* a Sunday and a Monday

\* The advisory values: the defaults of init_session_state, and values the
\* rules form accepts that three worked days in a row exceed.
DefaultRules ==
    [min_rest_hours |-> 8, max_consecutive_days |-> 5,
     min_weekly_hours |-> 30, max_weekly_hours |-> 50]

StrictRules ==
    [min_rest_hours |-> 24, max_consecutive_days |-> 1,
     min_weekly_hours |-> 0, max_weekly_hours |-> 4]

RuleSets == {DefaultRules, StrictRules}

\* The schedule a previous session left in SCHEDULE_FILE.
PrevSchedule ==
    [d \in {1} |-> [assignments |-> [e \in {"e1"} |-> "L"],
                    shift_counts |-> [s \in {"L"} |-> 1]]]

employee_list ==
    SelectSeq(EmpOrder, LAMBDA e : e \in DOMAIN employees)

(***************************************************************************)
(* Helpers nested in generate_schedule.                                    *)
(***************************************************************************)
Contains(name, sub) ==
    \E i \in 1..(Len(name) - Len(sub) + 1) :
        SubSeq(name, i, i + Len(sub) - 1) = sub

get_shift_type(shift_id) ==
    LET name == ShiftName[shift_id]
    IN  IF Contains(name, <<"zao", "zao">>) THEN "zaozao"
        ELSE IF Contains(name, <<"zao">>) THEN "zao"
        ELSE IF Contains(name, <<"wan">>) THEN "wan"
        ELSE IF Contains(name, <<"zhong">>) THEN "zhong"
        ELSE "other"

get_opposite_shift_type(shift_type) ==
    IF shift_type = "zao" THEN "wan"
    ELSE IF shift_type = "wan" THEN "zao"
    ELSE shift_type

\* check_if_rested that stops the day before the date.
check_if_rested_before(emp_id, current_date) ==
    LET last_work == employee_shift_cycle[emp_id].last_work_date
    IN  /\ last_work # NoDate
        /\ employees[emp_id].rest_day # ""
        /\ \E check_date \in (last_work + 1)..(current_date - 1) :
               get_weekday_chinese(check_date) = employees[emp_id].rest_day

\* Lines 1312-1339.
check_if_rested(emp_id, current_date) ==
    LET cycle_info == DictGet(employee_shift_cycle, emp_id,
                              [current_type |-> NoType, last_work_date |-> NoDate,
                               rested |-> FALSE])
        last_work == cycle_info.last_work_date
        rest_day == IF emp_id \in DOMAIN employees
                    THEN employees[emp_id].rest_day ELSE ""
    IN  IF last_work = NoDate THEN FALSE
        ELSE IF rest_day = "" THEN FALSE
        ELSE \E check_date \in (last_work + 1)..current_date :
                 get_weekday_chinese(check_date) = rest_day

\* check_conflicts without the rest-day and unavailable-date checks.
check_conflicts_norest(emp_id, shift_id, date, sched) ==
    IF emp_id \notin DOMAIN employees THEN {"no_employee"}
    ELSE IF shift_id \notin DOMAIN shifts THEN {"no_shift"}
    ELSE (IF shifts[shift_id].required_skills # {}
             /\ shifts[shift_id].required_skills \cap employees[emp_id].skills = {}
          THEN {"skills"} ELSE {})
         \cup
         (IF date \in DOMAIN sched /\ emp_id \in DOMAIN sched[date].assignments
          THEN {"assigned"} ELSE {})

\* check_conflicts without the skill check.
check_conflicts_noskill(emp_id, shift_id, date, sched) ==
    IF emp_id \notin DOMAIN employees THEN {"no_employee"}
    ELSE IF shift_id \notin DOMAIN shifts THEN {"no_shift"}
    ELSE (IF employees[emp_id].rest_day # ""
             /\ get_weekday_chinese(date) = employees[emp_id].rest_day
          THEN {"rest_day"} ELSE {})
         \cup
         (IF date \in employees[emp_id].unavailable_days
          THEN {"unavailable"} ELSE {})
         \cup
         (IF date \in DOMAIN sched /\ emp_id \in DOMAIN sched[date].assignments
          THEN {"assigned"} ELSE {})

\* check_conflicts without the check of the date's assignments.
check_conflicts_noassigned(emp_id, shift_id, date, sched) ==
    IF emp_id \notin DOMAIN employees THEN {"no_employee"}
    ELSE IF shift_id \notin DOMAIN shifts THEN {"no_shift"}
    ELSE (IF employees[emp_id].rest_day # ""
             /\ get_weekday_chinese(date) = employees[emp_id].rest_day
          THEN {"rest_day"} ELSE {})
         \cup
         (IF date \in employees[emp_id].unavailable_days
          THEN {"unavailable"} ELSE {})
         \cup
         (IF shifts[shift_id].required_skills # {}
             /\ shifts[shift_id].required_skills \cap employees[emp_id].skills = {}
          THEN {"skills"} ELSE {})

\* The conflicts of check_conflicts, as the set of their kinds.
check_conflicts(emp_id, shift_id, date, sched) ==
    IF emp_id \notin DOMAIN employees THEN {"no_employee"}
    ELSE IF shift_id \notin DOMAIN shifts THEN {"no_shift"}
    ELSE LET emp == employees[emp_id]
             shift == shifts[shift_id]
         IN  (IF emp.rest_day # "" /\ get_weekday_chinese(date) = emp.rest_day
              THEN {"rest_day"} ELSE {})
             \cup
             (IF date \in emp.unavailable_days THEN {"unavailable"} ELSE {})
             \cup
             (IF shift.required_skills # {}
                 /\ shift.required_skills \cap emp.skills = {}
              THEN {"skills"} ELSE {})
             \cup
             (IF date \in DOMAIN sched /\ emp_id \in DOMAIN sched[date].assignments
              THEN {"assigned"} ELSE {})

\* get_employee_score, times 10, with the two rotation tests in one chain:
\* the same-category bonus also applies after a rest.
get_employee_score_flat(emp_id, shift_id, date, current_workload) ==
    LET emp == employees[emp_id]
        shift == shifts[shift_id]
        base == current_workload[emp_id].days * 100
                + (IF shift.required_skills = {} THEN 0
                   ELSE IF shift.required_skills \cap emp.skills # {} THEN -100
                   ELSE 500)
                + (IF shift_id \in emp.preferred_shifts THEN -50 ELSE 0)
                + current_workload[emp_id].hours
        new_type == get_shift_type(shift_id)
        current_type == employee_shift_cycle[emp_id].current_type
        just_rested == check_if_rested(emp_id, date)
    IN  IF emp_id \in Range(fixed_early_early_employees) THEN base
        ELSE IF just_rested /\ current_type \in {"zao", "wan"}
                /\ new_type = get_opposite_shift_type(current_type)
             THEN base - 50
        ELSE IF current_type # NoType /\ new_type = current_type THEN base - 30
        ELSE base

\* get_employee_score, times 10.
get_employee_score(emp_id, shift_id, date, current_workload) ==
    LET emp == employees[emp_id]
        shift == shifts[shift_id]
        base == current_workload[emp_id].days * 100
                + (IF shift.required_skills = {} THEN 0
                   ELSE IF shift.required_skills \cap emp.skills # {} THEN -100
                   ELSE 500)
                + (IF shift_id \in emp.preferred_shifts THEN -50 ELSE 0)
                + current_workload[emp_id].hours
        new_type == get_shift_type(shift_id)
        current_type == employee_shift_cycle[emp_id].current_type
        just_rested == check_if_rested(emp_id, date)
    IN  IF emp_id \in Range(fixed_early_early_employees) THEN base
        ELSE IF just_rested /\ current_type \in {"zao", "wan"}
             THEN (IF new_type = get_opposite_shift_type(current_type)
                   THEN base - 50 ELSE base)
        ELSE IF current_type # NoType /\ new_type = current_type THEN base - 30
        ELSE base

shift_count(sched, date, shift_id) ==
    DictGet(DictGet(sched, date, [shift_counts |-> EmptyDict]).shift_counts,
            shift_id, 0)

\* get_required_staff without the dynamic rule.
get_required_staff_base(shift_id, date, sched) ==
    shifts[shift_id].required_staff

\* Every call site passes a date and the non-empty schedule.
get_required_staff(shift_id, date, sched) ==
    IF shift_id = early_shift_id /\ sched # EmptyDict
    THEN (IF shift_count(sched, date, early_early_shift_id) = 0 THEN 2 ELSE 1)
    ELSE shifts[shift_id].required_staff

is_allow_empty(shift_id) == shift_id \in flexible_shifts

\* shift_list_today without the Monday rule.
shift_list_today_all(date) ==
    shift_list

\* Lines 1523-1526 (and 1555-1558, 1582-1585).
shift_list_today(date) ==
    IF get_weekday_chinese(date) = "Mon" /\ monday_no_early_early
    THEN SelectSeq(shift_list, LAMBDA s : s # fixed_early_early_shift)
    ELSE shift_list


(***************************************************************************)
(* assign_employee_to_shift.                                               *)
(***************************************************************************)
available_employees(date, sched) ==
    SelectSeq(employee_list, LAMBDA e : e \notin DOMAIN sched[date].assignments)

\* candidates that forgets who already works on the date.
candidates_anyone(date, shift_id, sched, current_workload) ==
    LET ok == SelectSeq(employee_list,
                  LAMBDA e : check_conflicts(e, shift_id, date, sched)
                                \subseteq {"assigned"})
    IN  [i \in 1..Len(ok) |->
            <<get_employee_score(ok[i], shift_id, date, current_workload), ok[i]>>]

\* candidates that enforces max_consecutive_days on the days worked so far.
candidates_capped(date, shift_id, sched, current_workload) ==
    LET ok == SelectSeq(available_employees(date, sched),
                  LAMBDA e : /\ check_conflicts(e, shift_id, date, sched) = {}
                             /\ current_workload[e].days
                                   < rules.max_consecutive_days)
    IN  [i \in 1..Len(ok) |->
            <<get_employee_score(ok[i], shift_id, date, current_workload), ok[i]>>]

\* The (score, emp_id) list before the sort.
candidates(date, shift_id, sched, current_workload) ==
    LET ok == SelectSeq(available_employees(date, sched),
                        LAMBDA e : check_conflicts(e, shift_id, date, sched) = {})
    IN  [i \in 1..Len(ok) |->
            <<get_employee_score(ok[i], shift_id, date, current_workload), ok[i]>>]

\* sorted_candidates without the sort.
sorted_candidates_unsorted(date, shift_id, sched, current_workload) ==
    candidates(date, shift_id, sched, current_workload)

\* Lines 1442-1443.
sorted_candidates(date, shift_id, sched, current_workload) ==
    LET cands == candidates(date, shift_id, sched, current_workload)
    IN  StableSort(cands, [i \in 1..Len(cands) |-> <<cands[i][1]>>])

\* TRUE iff assign_employee_to_shift would return True.
assign_succeeds(date, shift_id) ==
    /\ shift_count(schedule, date, shift_id)
          < get_required_staff(shift_id, date, schedule)
    /\ candidates(date, shift_id, schedule, employee_workload) # <<>>

best_emp_id(date, shift_id) ==
    sorted_candidates(date, shift_id, schedule, employee_workload)[1][2]

\* assign_write that leaves the count as it was.
assign_write_nocount(sched, date, emp_id, shift_id) ==
    [sched EXCEPT ![date] =
        [assignments |-> DictSet(@.assignments, emp_id, shift_id),
         shift_counts |-> @.shift_counts]]

\* assign_write that replaces the date's assignments by the new one.
assign_write_replace(sched, date, emp_id, shift_id) ==
    [sched EXCEPT ![date] =
        [assignments |-> DictSet(EmptyDict, emp_id, shift_id),
         shift_counts |-> DictSet(@.shift_counts, shift_id,
                                  shift_count(sched, date, shift_id) + 1)]]

\* Lines 1448-1449: the write of the chosen employee.
assign_write(sched, date, emp_id, shift_id) ==
    LET cnt == shift_count(sched, date, shift_id)
    IN  [sched EXCEPT ![date] =
            [assignments |-> DictSet(@.assignments, emp_id, shift_id),
             shift_counts |-> DictSet(@.shift_counts, shift_id, cnt + 1)]]

\* workload_add that counts every shift as the default eight hours.
workload_add_default(current_workload, emp_id, shift_id) ==
    [current_workload EXCEPT ![emp_id] =
        [days |-> @.days + 1, hours |-> @.hours + 8]]

\* Lines 1452-1454 (and 1505-1507, 1630-1633).
workload_add(current_workload, emp_id, shift_id) ==
    [current_workload EXCEPT ![emp_id] =
        [days |-> @.days + 1,
         hours |-> @.hours + shifts[shift_id].duration_hours]]

\* The rotation record that takes the new category after a rest only when
\* the current one is rotating.
cycle_after_assign_rotating(emp_id, shift_id, date) ==
    LET new_shift_type == get_shift_type(shift_id)
        cycle_info == employee_shift_cycle[emp_id]
    IN  IF check_if_rested(emp_id, date)
           /\ cycle_info.current_type \in {"zao", "wan"}
        THEN [current_type |-> new_shift_type, last_work_date |-> date,
              rested |-> TRUE]
        ELSE [current_type |-> IF cycle_info.current_type = NoType
                               THEN new_shift_type ELSE cycle_info.current_type,
              last_work_date |-> date,
              rested |-> FALSE]

\* The rotation record that follows the category of every assigned shift.
cycle_after_assign_follow(emp_id, shift_id, date) ==
    [current_type |-> get_shift_type(shift_id), last_work_date |-> date,
     rested |-> check_if_rested(emp_id, date)]

\* Lines 1456-1474: the rotation record after an assignment.
cycle_after_assign(emp_id, shift_id, date) ==
    LET new_shift_type == get_shift_type(shift_id)
        cycle_info == employee_shift_cycle[emp_id]
    IN  IF check_if_rested(emp_id, date)
        THEN [current_type |-> new_shift_type, last_work_date |-> date,
              rested |-> TRUE]
        ELSE [current_type |-> IF cycle_info.current_type = NoType
                               THEN new_shift_type ELSE cycle_info.current_type,
              last_work_date |-> date,
              rested |-> FALSE]

\* An entry of the history of assignments; for phase 3 it notes the pass.
LogEntry(phase, date, emp_id, shift_id) ==
    [phase |-> phase, date |-> date, emp |-> emp_id, shift |-> shift_id,
     pass |-> IF phase = 3 THEN iteration ELSE 0]

Query(shift_id, date) ==
    [shift |-> shift_id, date |-> date,
     result |-> get_required_staff(shift_id, date, schedule)]

\* The successful path of assign_employee_to_shift, called from `phase`.
assign_employee_to_shift(phase, date, shift_id) ==
    LET best == best_emp_id(date, shift_id)
    IN  /\ schedule' = assign_write(schedule, date, best, shift_id)
        /\ employee_workload' = workload_add(employee_workload, best, shift_id)
        /\ employee_shift_cycle' =
              [employee_shift_cycle EXCEPT
                  ![best] = cycle_after_assign(best, shift_id, date)]
        /\ log' = Append(log, LogEntry(phase, date, best, shift_id))

NoteQueries(qs) ==
    /\ queries' = qs
    /\ depUsed' = depUsed \cup {q.date : q \in {x \in qs : x.shift = early_shift_id}}


(***************************************************************************)
(* Initial state: the session state when the page is rendered.             *)
(***************************************************************************)
RosterOf(f) ==
    [e \in {EmpOrder[i] : i \in DOMAIN f} |->
        f[CHOOSE i \in DOMAIN f : EmpOrder[i] = e]]

\* Larger rosters: four employees without the skill of the early shift,
\* then one who has it.
Profiles4 ==
    { [skills |-> {}, rest_day |-> "", preferred_shifts |-> {"L"},
       unavailable_days |-> {}],
      [skills |-> {}, rest_day |-> "Tue", preferred_shifts |-> {"EE"},
       unavailable_days |-> {}] }

Profile5 ==
    [skills |-> {"bar"}, rest_day |-> "", preferred_shifts |-> {},
     unavailable_days |-> {8}]

Rosters ==
    {RosterOf(f) : f \in UNION {[1..k -> Profiles] : k \in 0..3}}
    \cup {RosterOf([i \in 1..5 |-> IF i = 5 THEN Profile5 ELSE f[i]]) :
             f \in [1..4 -> Profiles4]}

\* The session state when the page is rendered, the inputs taken from the
\* given sets.
InitWith(rosters, tables, fixedLists, startDates, ruleSets) ==
    /\ employees \in rosters
    /\ \E table \in tables :
          /\ shift_list = [i \in 1..Len(table) |-> table[i][1]]
          /\ shifts = [s \in {table[i][1] : i \in 1..Len(table)} |->
                          ShiftRecord(s, table[CHOOSE i \in 1..Len(table) :
                                                  table[i][1] = s][2])]
    /\ fixed_early_early_employees \in fixedLists
    /\ monday_no_early_early \in BOOLEAN
    /\ rules \in ruleSets
    /\ start_date \in startDates
    /\ end_date \in (start_date - 1)..(start_date + MaxSpan)
    /\ stored = PrevSchedule
    /\ saved = 0
    /\ schedule = EmptyDict
    /\ employee_workload = EmptyDict
    /\ employee_shift_cycle = EmptyDict
    /\ pc = "start"
    /\ date_str = 0
    /\ shift_i = 0
    /\ fixed_i = 0
    /\ iteration = 0
    /\ vacancies_filled = 0
    /\ unassigned_employees = <<>>
    /\ emp_i = 0
    /\ required_staff = 0
    /\ current_count = 0
    /\ run = 0
    /\ log = <<>>
    /\ queries = {}
    /\ depUsed = {}
    /\ prev_run = [schedule |-> EmptyDict, log |-> <<>>, rules |-> rules]

Init == InitWith(Rosters, ShiftTables, FixedLists, StartDates, {DefaultRules})

\* A smaller choice of inputs, used to verify termination.
LiveRosters ==
    {RosterOf(f) : f \in UNION {[1..k -> Profiles] : k \in 0..2}}
    \cup {RosterOf([i \in 1..5 |-> IF i = 5 THEN Profile5
                                   ELSE CHOOSE q \in Profiles4 : q.rest_day = ""])}

LiveTables ==
    { <<>>,
      << <<"EE", 1>>, <<"E", 1>>, <<"L", 1>> >>,
      << <<"EE", 4>>, <<"E", 1>> >> }

InitLive == InitWith(LiveRosters, LiveTables, FixedLists, {6}, {DefaultRules})

store == <<stored, saved>>
data == <<schedule, employee_workload, employee_shift_cycle, log>>
p2locals == <<required_staff, current_count>>
p3locals == <<iteration, vacancies_filled>>
p4locals == <<unassigned_employees, emp_i>>

(***************************************************************************)
(* generate_schedule: the precondition checks and the button.              *)
(***************************************************************************)
\* The precondition with "start_date > end_date" as the date test.
PreconditionOK_weak ==
    /\ DOMAIN employees # {}
    /\ DOMAIN shifts # {}
    /\ ~(start_date > end_date)

\* Lines 1191 and 1239: the two early returns.
PreconditionOK ==
    /\ DOMAIN employees # {}
    /\ DOMAIN shifts # {}
    /\ ~(start_date >= end_date)

Reject ==
    /\ pc = "start"
    /\ ~PreconditionOK
    /\ pc' = "rejected"
    /\ UNCHANGED <<inputs, store, data, p2locals, p3locals, p4locals,
                   date_str, shift_i, fixed_i, run, queries, depUsed, prev_run>>

\* Lines 1249-1258.
initial_schedule ==
    [d \in start_date..end_date |->
        [assignments |-> EmptyDict,
         shift_counts |-> [s \in DOMAIN shifts |-> 0]]]

\* A workload table that survives from the previous run.
initial_workload_kept ==
    IF employee_workload = EmptyDict
    THEN [e \in DOMAIN employees |-> [days |-> 0, hours |-> 0]]
    ELSE employee_workload

\* Line 1281.
initial_workload ==
    [e \in DOMAIN employees |-> [days |-> 0, hours |-> 0]]

\* Line 1288.
initial_cycle ==
    [e \in DOMAIN employees |->
        [current_type |-> NoType, last_work_date |-> NoDate, rested |-> FALSE]]

StartRun ==
    /\ PreconditionOK
    /\ schedule' = initial_schedule
    /\ employee_workload' = initial_workload
    /\ employee_shift_cycle' = initial_cycle
    /\ log' = <<>>
    /\ queries' = {}
    /\ depUsed' = {}
    /\ run' = run + 1
    /\ pc' = "p1"
    /\ date_str' = start_date
    /\ fixed_i' = 1
    /\ UNCHANGED <<inputs, store, p2locals, p3locals, p4locals, shift_i>>

\* The button is pressed with valid inputs.
Begin ==
    /\ pc = "start"
    /\ StartRun
    /\ UNCHANGED prev_run

\* After st.rerun() the button is pressed again with the same session state.
Rerun ==
    /\ pc = "done"
    /\ run = 1
    /\ StartRun
    /\ prev_run' = [schedule |-> schedule, log |-> log, rules |-> prev_run.rules]

\* rules_management, lines 1047-1105: between two runs the rules form saves
\* other advisory values (the form refuses min_weekly_hours above
\* max_weekly_hours).
SaveRules ==
    /\ pc = "done"
    /\ run = 1
    /\ \E r \in RuleSets :
          /\ ~(r.min_weekly_hours > r.max_weekly_hours)
          /\ rules' = r
    /\ UNCHANGED <<employees, shifts, shift_list, fixed_early_early_employees,
                   monday_no_early_early, start_date, end_date, store, data,
                   p2locals, p3locals, p4locals, pc, date_str, shift_i, fixed_i,
                   run, queries, depUsed, prev_run>>

(***************************************************************************)
(* Phase 1 (lines 1480-1515): the fixed early-early employees.             *)
(***************************************************************************)
phase1_skips(date) ==
    \/ (get_weekday_chinese(date) = "Mon" /\ monday_no_early_early)
    \/ fixed_early_early_shift \notin Range(shift_list)

\* phase1_inner_done without the break on the required staff.
phase1_inner_done_nolimit(date) ==
    fixed_i > Len(fixed_early_early_employees)

\* Line 1497: the inner loop is over or breaks.
phase1_inner_done(date) ==
    \/ fixed_i > Len(fixed_early_early_employees)
    \/ shift_count(schedule, date, fixed_early_early_shift)
          >= shifts[fixed_early_early_shift].required_staff

\* Lines 1499-1501.
phase1_can_assign(emp_id, date) ==
    /\ emp_id \notin DOMAIN schedule[date].assignments
    /\ check_conflicts(emp_id, fixed_early_early_shift, date, schedule) = {}

\* Lines 1502-1504.
phase1_write(sched, date, emp_id) ==
    [sched EXCEPT ![date] =
        [assignments |-> DictSet(@.assignments, emp_id, fixed_early_early_shift),
         shift_counts |-> DictSet(@.shift_counts, fixed_early_early_shift,
             DictGet(@.shift_counts, fixed_early_early_shift, 0) + 1)]]

\* Lines 1510-1515.
phase1_cycle(date) ==
    [current_type |-> get_shift_type(fixed_early_early_shift),
     last_work_date |-> date, rested |-> FALSE]

P1SkipDate ==
    /\ pc = "p1"
    /\ date_str <= end_date
    /\ phase1_skips(date_str)
    /\ date_str' = date_str + 1
    /\ fixed_i' = 1
    /\ NoteQueries({})
    /\ UNCHANGED <<inputs, store, data, p2locals, p3locals, p4locals,
                   pc, shift_i, run, prev_run>>

P1NextDate ==
    /\ pc = "p1"
    /\ date_str <= end_date
    /\ ~phase1_skips(date_str)
    /\ phase1_inner_done(date_str)
    /\ date_str' = date_str + 1
    /\ fixed_i' = 1
    /\ NoteQueries({})
    /\ UNCHANGED <<inputs, store, data, p2locals, p3locals, p4locals,
                   pc, shift_i, run, prev_run>>

P1Assign ==
    /\ pc = "p1"
    /\ date_str <= end_date
    /\ ~phase1_skips(date_str)
    /\ ~phase1_inner_done(date_str)
    /\ LET emp_id == fixed_early_early_employees[fixed_i]
       IN  /\ phase1_can_assign(emp_id, date_str)
           /\ schedule' = phase1_write(schedule, date_str, emp_id)
           /\ employee_workload' =
                 workload_add(employee_workload, emp_id, fixed_early_early_shift)
           /\ employee_shift_cycle' =
                 [employee_shift_cycle EXCEPT ![emp_id] = phase1_cycle(date_str)]
           /\ log' = Append(log, LogEntry(1, date_str, emp_id,
                                          fixed_early_early_shift))
    /\ fixed_i' = fixed_i + 1
    /\ NoteQueries({})
    /\ UNCHANGED <<inputs, store, p2locals, p3locals, p4locals,
                   pc, date_str, shift_i, run, prev_run>>

P1Pass ==
    /\ pc = "p1"
    /\ date_str <= end_date
    /\ ~phase1_skips(date_str)
    /\ ~phase1_inner_done(date_str)
    /\ ~phase1_can_assign(fixed_early_early_employees[fixed_i], date_str)
    /\ fixed_i' = fixed_i + 1
    /\ NoteQueries({})
    /\ UNCHANGED <<inputs, store, data, p2locals, p3locals, p4locals,
                   pc, date_str, shift_i, run, prev_run>>

P1Finish ==
    /\ pc = "p1"
    /\ date_str > end_date
    /\ pc' = "p2"
    /\ date_str' = start_date
    /\ shift_i' = 1
    /\ NoteQueries({})
    /\ UNCHANGED <<inputs, store, data, p2locals, p3locals, p4locals,
                   fixed_i, run, prev_run>>


(***************************************************************************)
(* Phase 2 (lines 1517-1543): fill every shift but the early-early one.    *)
(***************************************************************************)
P2NextDate ==
    /\ pc = "p2"
    /\ date_str <= end_date
    /\ shift_i > Len(shift_list_today(date_str))
    /\ date_str' = date_str + 1
    /\ shift_i' = 1
    /\ NoteQueries({})
    /\ UNCHANGED <<inputs, store, data, p2locals, p3locals, p4locals,
                   pc, fixed_i, run, prev_run>>

\* Lines 1530-1532.
P2SkipShift ==
    /\ pc = "p2"
    /\ date_str <= end_date
    /\ shift_i <= Len(shift_list_today(date_str))
    /\ shift_list_today(date_str)[shift_i] = fixed_early_early_shift
    /\ shift_i' = shift_i + 1
    /\ NoteQueries({})
    /\ UNCHANGED <<inputs, store, data, p2locals, p3locals, p4locals,
                   pc, date_str, fixed_i, run, prev_run>>

\* Lines 1534-1536: the locals of the while loop.
P2Enter ==
    /\ pc = "p2"
    /\ date_str <= end_date
    /\ shift_i <= Len(shift_list_today(date_str))
    /\ LET shift_id == shift_list_today(date_str)[shift_i]
       IN  /\ shift_id # fixed_early_early_shift
           /\ required_staff' = get_required_staff(shift_id, date_str, schedule)
           /\ current_count' = shift_count(schedule, date_str, shift_id)
           /\ NoteQueries({Query(shift_id, date_str)})
    /\ pc' = "p2w"
    /\ UNCHANGED <<inputs, store, data, p3locals, p4locals,
                   date_str, shift_i, fixed_i, run, prev_run>>

\* Lines 1539-1541: one successful turn of the while loop.
P2Assign ==
    /\ pc = "p2w"
    /\ current_count < required_staff
    /\ LET shift_id == shift_list_today(date_str)[shift_i]
       IN  /\ assign_succeeds(date_str, shift_id)
           /\ assign_employee_to_shift(2, date_str, shift_id)
           /\ NoteQueries({Query(shift_id, date_str)})
    /\ current_count' = current_count + 1
    /\ UNCHANGED <<inputs, store, required_staff, p3locals, p4locals,
                   pc, date_str, shift_i, fixed_i, run, prev_run>>

\* The while loop without its break: it tries the same shift again.
P2Break_nobreak ==
    /\ pc = "p2w"
    /\ current_count < required_staff
    /\ ~assign_succeeds(date_str, shift_list_today(date_str)[shift_i])
    /\ UNCHANGED vars

\* Lines 1542-1543: the assignment failed, the loop breaks.
P2Break ==
    /\ pc = "p2w"
    /\ current_count < required_staff
    /\ LET shift_id == shift_list_today(date_str)[shift_i]
       IN  /\ ~assign_succeeds(date_str, shift_id)
           /\ NoteQueries({Query(shift_id, date_str)})
    /\ pc' = "p2"
    /\ shift_i' = shift_i + 1
    /\ UNCHANGED <<inputs, store, data, p2locals, p3locals, p4locals,
                   date_str, fixed_i, run, prev_run>>

\* Line 1539: the loop condition is false.
P2Full ==
    /\ pc = "p2w"
    /\ ~(current_count < required_staff)
    /\ pc' = "p2"
    /\ shift_i' = shift_i + 1
    /\ NoteQueries({})
    /\ UNCHANGED <<inputs, store, data, p2locals, p3locals, p4locals,
                   date_str, fixed_i, run, prev_run>>

P2Finish ==
    /\ pc = "p2"
    /\ date_str > end_date
    /\ pc' = "p3"
    /\ iteration' = 0
    /\ vacancies_filled' = 0
    /\ date_str' = start_date
    /\ shift_i' = 1
    /\ NoteQueries({})
    /\ UNCHANGED <<inputs, store, data, p2locals, p4locals,
                   fixed_i, run, prev_run>>

(***************************************************************************)
(* Phase 3 (lines 1545-1574): up to max_iterations passes over vacancies.  *)
(***************************************************************************)
P3NextDate ==
    /\ pc = "p3"
    /\ date_str <= end_date
    /\ shift_i > Len(shift_list_today(date_str))
    /\ date_str' = date_str + 1
    /\ shift_i' = 1
    /\ NoteQueries({})
    /\ UNCHANGED <<inputs, store, data, p2locals, p3locals, p4locals,
                   pc, fixed_i, run, prev_run>>

\* Lines 1561-1565: the shift is under its requirement.
phase3_vacant(date, shift_id) ==
    shift_count(schedule, date, shift_id)
        < get_required_staff(shift_id, date, schedule)

\* Lines 1565-1568.
P3Fill ==
    /\ pc = "p3"
    /\ date_str <= end_date
    /\ shift_i <= Len(shift_list_today(date_str))
    /\ LET shift_id == shift_list_today(date_str)[shift_i]
       IN  /\ phase3_vacant(date_str, shift_id)
           /\ assign_succeeds(date_str, shift_id)
           /\ assign_employee_to_shift(3, date_str, shift_id)
           /\ NoteQueries({Query(shift_id, date_str)})
    /\ vacancies_filled' = vacancies_filled + 1
    /\ shift_i' = shift_i + 1
    /\ UNCHANGED <<inputs, store, p2locals, p4locals, iteration,
                   pc, date_str, fixed_i, run, prev_run>>

\* Lines 1565-1571: no vacancy, or nobody to fill it.
P3NoFill ==
    /\ pc = "p3"
    /\ date_str <= end_date
    /\ shift_i <= Len(shift_list_today(date_str))
    /\ LET shift_id == shift_list_today(date_str)[shift_i]
       IN  /\ ~(phase3_vacant(date_str, shift_id)
                 /\ assign_succeeds(date_str, shift_id))
           /\ NoteQueries({Query(shift_id, date_str)})
    /\ shift_i' = shift_i + 1
    /\ UNCHANGED <<inputs, store, data, p2locals, p3locals, p4locals,
                   pc, date_str, fixed_i, run, prev_run>>

\* phase3_over that goes on after a pass that filled nothing.
phase3_over_nobreak ==
    iteration + 1 >= max_iterations

\* Lines 1547, 1573-1574: the pass loop ends.
phase3_over ==
    vacancies_filled = 0 \/ iteration + 1 >= max_iterations

P3NextPass ==
    /\ pc = "p3"
    /\ date_str > end_date
    /\ ~phase3_over
    /\ iteration' = iteration + 1
    /\ vacancies_filled' = 0
    /\ date_str' = start_date
    /\ shift_i' = 1
    /\ NoteQueries({})
    /\ UNCHANGED <<inputs, store, data, p2locals, p4locals,
                   pc, fixed_i, run, prev_run>>

\* P3Finish that also saves the schedule as it stands after phase 3.
P3Finish_saves ==
    /\ pc = "p3"
    /\ date_str > end_date
    /\ phase3_over
    /\ pc' = "p4"
    /\ date_str' = start_date
    /\ stored' = schedule
    /\ saved' = saved + 1
    /\ NoteQueries({})
    /\ UNCHANGED <<inputs, data, p2locals, p3locals, p4locals,
                   shift_i, fixed_i, run, prev_run>>

P3Finish ==
    /\ pc = "p3"
    /\ date_str > end_date
    /\ phase3_over
    /\ pc' = "p4"
    /\ date_str' = start_date
    /\ NoteQueries({})
    /\ UNCHANGED <<inputs, store, data, p2locals, p3locals, p4locals,
                   shift_i, fixed_i, run, prev_run>>

(***************************************************************************)
(* Phase 4 (lines 1576-1652): employees without a shift on the date.       *)
(***************************************************************************)
\* Lines 1588-1595.
sorted_unassigned(date) ==
    LET idle == SelectSeq(employee_list,
                    LAMBDA e : e \notin DOMAIN schedule[date].assignments)
    IN  StableSort(idle, [i \in 1..Len(idle) |->
                            <<employee_workload[idle[i]].days,
                              employee_workload[idle[i]].hours>>])

P4EnterDate ==
    /\ pc = "p4"
    /\ date_str <= end_date
    /\ unassigned_employees' = sorted_unassigned(date_str)
    /\ emp_i' = 1
    /\ pc' = "p4e"
    /\ NoteQueries({})
    /\ UNCHANGED <<inputs, store, data, p2locals, p3locals,
                   date_str, shift_i, fixed_i, run, prev_run>>

\* shift_shortages that leaves out the fixed shift, as phase 2 does.
shift_shortages_nofixed(date) ==
    LET short == SelectSeq(shift_list_today(date),
                     LAMBDA s : /\ s # fixed_early_early_shift
                                /\ shift_count(schedule, date, s)
                                      < get_required_staff(s, date, schedule))
    IN  [i \in 1..Len(short) |->
            <<short[i], get_required_staff(short[i], date, schedule)
                          - shift_count(schedule, date, short[i])>>]

\* Lines 1600-1607: <<shift_id, shortage>> in the order of shift_list_today.
shift_shortages(date) ==
    LET short == SelectSeq(shift_list_today(date),
                     LAMBDA s : shift_count(schedule, date, s)
                                   < get_required_staff(s, date, schedule))
    IN  [i \in 1..Len(short) |->
            <<short[i], get_required_staff(short[i], date, schedule)
                          - shift_count(schedule, date, short[i])>>]

\* ordered_shortages that sorts for every employee: by the preferred
\* category, if there is one, then by descending shortage.
ordered_shortages_always(emp_id, date) ==
    LET current_type == employee_shift_cycle[emp_id].current_type
        preferred == IF check_if_rested(emp_id, date)
                     THEN get_opposite_shift_type(current_type)
                     ELSE current_type
        key(x) == IF current_type \in {"zao", "wan"}
                     /\ get_shift_type(x[1]) = preferred THEN 0 ELSE 1
        short == shift_shortages(date)
    IN  StableSort(short, [i \in 1..Len(short) |->
                              <<key(short[i]), -short[i][2]>>])

\* Lines 1610-1622: the order in which the short shifts are tried.
ordered_shortages(emp_id, date) ==
    LET current_type == employee_shift_cycle[emp_id].current_type
        preferred == IF check_if_rested(emp_id, date)
                     THEN get_opposite_shift_type(current_type)
                     ELSE current_type
        key(x) == IF get_shift_type(x[1]) = preferred THEN 0 ELSE 1
        short == shift_shortages(date)
    IN  IF current_type \in {"zao", "wan"}
        THEN StableSort(short, [i \in 1..Len(short) |->
                                  <<key(short[i]), -short[i][2]>>])
        ELSE short

\* Lines 1624-1626: the short shifts the employee may take, in trial order.
phase4_options(emp_id, date) ==
    SelectSeq(ordered_shortages(emp_id, date),
              LAMBDA x : check_conflicts(emp_id, x[1], date, schedule) = {})

\* Lines 1627-1629.
phase4_write(sched, date, emp_id, shift_id) ==
    [sched EXCEPT ![date] =
        [assignments |-> DictSet(@.assignments, emp_id, shift_id),
         shift_counts |-> DictSet(@.shift_counts, shift_id,
                                  DictGet(@.shift_counts, shift_id, 0) + 1)]]

\* Lines 1635-1650: as in assign_employee_to_shift, but "rested" is left as
\* it was when the employee did not just rest.
phase4_cycle(emp_id, shift_id, date) ==
    LET new_shift_type == get_shift_type(shift_id)
        cycle_info == employee_shift_cycle[emp_id]
    IN  IF check_if_rested(emp_id, date)
        THEN [current_type |-> new_shift_type, last_work_date |-> date,
              rested |-> TRUE]
        ELSE [current_type |-> IF cycle_info.current_type = NoType
                               THEN new_shift_type ELSE cycle_info.current_type,
              last_work_date |-> date,
              rested |-> cycle_info.rested]

phase4_queries(date) ==
    {Query(shift_list_today(date)[i], date) :
        i \in 1..Len(shift_list_today(date))}

P4Assign ==
    /\ pc = "p4e"
    /\ emp_i <= Len(unassigned_employees)
    /\ LET emp_id == unassigned_employees[emp_i]
           options == phase4_options(emp_id, date_str)
       IN  /\ options # <<>>
           /\ schedule' = phase4_write(schedule, date_str, emp_id, options[1][1])
           /\ employee_workload' =
                 workload_add(employee_workload, emp_id, options[1][1])
           /\ employee_shift_cycle' =
                 [employee_shift_cycle EXCEPT
                     ![emp_id] = phase4_cycle(emp_id, options[1][1], date_str)]
           /\ log' = Append(log, LogEntry(4, date_str, emp_id, options[1][1]))
    /\ emp_i' = emp_i + 1
    /\ NoteQueries(phase4_queries(date_str))
    /\ UNCHANGED <<inputs, store, p2locals, p3locals, unassigned_employees,
                   pc, date_str, shift_i, fixed_i, run, prev_run>>

\* P4NoShift that notes the date as worked although nothing is assigned.
P4NoShift_touch ==
    /\ pc = "p4e"
    /\ emp_i <= Len(unassigned_employees)
    /\ phase4_options(unassigned_employees[emp_i], date_str) = <<>>
    /\ employee_shift_cycle' =
          [employee_shift_cycle EXCEPT
              ![unassigned_employees[emp_i]].last_work_date = date_str]
    /\ emp_i' = emp_i + 1
    /\ NoteQueries(phase4_queries(date_str))
    /\ UNCHANGED <<inputs, store, schedule, employee_workload, log, p2locals,
                   p3locals, unassigned_employees, pc, date_str, shift_i,
                   fixed_i, run, prev_run>>

\* Lines 1624-1626 with no shift free of conflicts: nothing is written.
P4NoShift ==
    /\ pc = "p4e"
    /\ emp_i <= Len(unassigned_employees)
    /\ phase4_options(unassigned_employees[emp_i], date_str) = <<>>
    /\ emp_i' = emp_i + 1
    /\ NoteQueries(phase4_queries(date_str))
    /\ UNCHANGED <<inputs, store, data, p2locals, p3locals, unassigned_employees,
                   pc, date_str, shift_i, fixed_i, run, prev_run>>

P4NextDate ==
    /\ pc = "p4e"
    /\ emp_i > Len(unassigned_employees)
    /\ pc' = "p4"
    /\ date_str' = date_str + 1
    /\ NoteQueries({})
    /\ UNCHANGED <<inputs, store, data, p2locals, p3locals, p4locals,
                   shift_i, fixed_i, run, prev_run>>

P4Finish ==
    /\ pc = "p4"
    /\ date_str > end_date
    /\ pc' = "save"
    /\ NoteQueries({})
    /\ UNCHANGED <<inputs, store, data, p2locals, p3locals, p4locals,
                   date_str, shift_i, fixed_i, run, prev_run>>

\* Lines 1654-1656.
Save ==
    /\ pc = "save"
    /\ stored' = schedule
    /\ saved' = saved + 1
    /\ pc' = "done"
    /\ UNCHANGED <<inputs, data, p2locals, p3locals, p4locals,
                   date_str, shift_i, fixed_i, run, queries, depUsed, prev_run>>

(***************************************************************************)
(* Specifications.                                                         *)
(***************************************************************************)
Phase1 == P1SkipDate \/ P1NextDate \/ P1Assign \/ P1Pass \/ P1Finish
Phase2 == P2NextDate \/ P2SkipShift \/ P2Enter \/ P2Assign \/ P2Break
             \/ P2Full \/ P2Finish
Phase3 == P3NextDate \/ P3Fill \/ P3NoFill \/ P3NextPass \/ P3Finish
Phase4 == P4EnterDate \/ P4Assign \/ P4NoShift \/ P4NextDate \/ P4Finish

\* The steps the interpreter takes by itself once the button is pressed.
Generate == Phase1 \/ Phase2 \/ Phase3 \/ Phase4 \/ Save

Next == Reject \/ Begin \/ Generate

Spec == Init /\ [][Next]_vars

\* generate_schedule is straight-line synchronous code: it keeps running.
FairSpec == InitLive /\ [][Next]_vars /\ WF_vars(Generate)

\* The same session pressing the button a second time.
NextTwice == Next \/ Rerun

SpecTwice == Init /\ [][NextTwice]_vars

\* Two runs of the same session with the rules form saved in between.
InitRules == InitWith(LiveRosters, LiveTables, FixedLists, {6}, RuleSets)

NextRules == NextTwice \/ SaveRules

SpecRules == InitRules /\ [][NextRules]_vars


(***************************************************************************)
(* Properties.                                                             *)
(***************************************************************************)
Dates == DOMAIN schedule

Assigned(sched, date) == DOMAIN sched[date].assignments

Holders(sched, date, shift_id) ==
    {e \in Assigned(sched, date) : sched[date].assignments[e] = shift_id}

LogPhases == {log[i].phase : i \in DOMAIN log}

CountsMatch(sched) ==
    \A d \in DOMAIN sched : \A s \in DOMAIN shifts :
        DictGet(sched[d].shift_counts, s, 0) = Cardinality(Holders(sched, d, s))

\* C1: in every state of the generation and in the stored result, the count
\* of shift S on date D is the number of employees assigned to S on D.
C1_CountsMatchAssignments ==
    /\ CountsMatch(schedule)
    /\ (pc = "done" => stored = schedule /\ CountsMatch(stored))

C1_Witness ==
    /\ pc = "done"
    /\ {1, 3, 4} \subseteq LogPhases \/ {2, 3, 4} \subseteq LogPhases
    /\ \E d \in Dates : \E s \in DOMAIN shifts :
          Cardinality(Holders(schedule, d, s)) >= 2

\* C2: no employee is written twice for the same date: no phase assigns an
\* employee on a date on which the employee already holds an assignment.
C2_AtMostOnePerDate ==
    \A i \in DOMAIN log : \A j \in DOMAIN log :
        (i < j) => ~(log[i].date = log[j].date /\ log[i].emp = log[j].emp)

C2_Witness ==
    /\ pc = "done"
    /\ \E d \in Dates : Cardinality(Assigned(schedule, d)) >= 2
    /\ \E e \in DOMAIN employees :
          Cardinality({d \in Dates : e \in Assigned(schedule, d)}) >= 2

RestsOn(emp_id, date) ==
    \/ (employees[emp_id].rest_day # ""
          /\ WeekdayNames[(date % 7) + 1] = employees[emp_id].rest_day)
    \/ date \in employees[emp_id].unavailable_days

ShortOn(date) ==
    \E s \in Range(shift_list_today(date)) :
        shift_count(schedule, date, s) < get_required_staff(s, date, schedule)

\* C3: an employee has no assignment on the fixed rest weekday or on an
\* unavailable date, whatever the phase and however short the date is.
C3_RestAndUnavailableRespected ==
    \A d \in Dates : \A e \in Assigned(schedule, d) : ~RestsOn(e, d)

C3_Witness ==
    /\ pc = "done"
    /\ \E d \in Dates : \E e \in DOMAIN employees :
          /\ RestsOn(e, d)
          /\ e \notin Assigned(schedule, d)
          /\ ShortOn(d)
          /\ \E d2 \in Dates : e \in Assigned(schedule, d2)

LacksSkill(emp_id, shift_id) ==
    /\ shifts[shift_id].required_skills # {}
    /\ shifts[shift_id].required_skills \cap employees[emp_id].skills = {}

C5_AssignmentsOnlyGrow ==
    [][\A d \in Dates : \A e \in Assigned(schedule, d) :
          /\ d \in DOMAIN schedule'
          /\ e \in Assigned(schedule', d)
          /\ schedule'[d].assignments[e] = schedule[d].assignments[e]]_vars

C5_Witness ==
    /\ pc = "p4e"
    /\ {2, 3, 4} \subseteq LogPhases

ExpectedStaff(shift_id, date, sched) ==
    IF shift_id = "E"
    THEN (IF Cardinality(Holders(sched, date, "EE")) = 0 THEN 2 ELSE 1)
    ELSE shifts[shift_id].required_staff

\* C6: every requirement a step resolves is, against the schedule as it
\* stands when the step starts, 2 or 1 for the dependent shift according to
\* the trigger shift's count being 0 or not, and the base required staff for
\* any other shift; the requirement phase 2 keeps during its loop stays so.
C6_RequiredStaffResolved ==
    [][/\ \A q \in queries' : q.result = ExpectedStaff(q.shift, q.date, schedule)
       /\ (pc' = "p2w" =>
              required_staff'
                 = ExpectedStaff(shift_list_today(date_str')[shift_i'],
                                 date_str', schedule'))]_vars

C6_Witness ==
    /\ pc = "p2w"
    /\ \E q \in queries : q.shift = "E" /\ q.result = 1
    /\ \E d \in Dates : get_required_staff("E", d, schedule) = 2

\* C7: once the dependent shift's requirement for a date has been used, no
\* step adds an assignment to the trigger shift on that date.
C7_TriggerResolvedFirst ==
    [][\A d \in depUsed :
          shift_count(schedule', d, "EE") = shift_count(schedule, d, "EE")]_vars

IsPrefix(s, t) == Len(s) <= Len(t) /\ SubSeq(t, 1, Len(s)) = s

\* C8: a second run from the same inputs writes the same assignments in the
\* same order and ends with the same schedule as the first.
C8_Deterministic ==
    (run = 2) =>
        /\ IsPrefix(log, prev_run.log)
        /\ (pc = "done" => schedule = prev_run.schedule /\ log = prev_run.log)

C8_Witness ==
    /\ run = 2
    /\ pc = "done"
    /\ {2, 3} \subseteq LogPhases
    /\ \E d \in Dates : Cardinality(Assigned(schedule, d)) >= 3

\* C9: with no employee, no shift, or a start date not before the end date,
\* nothing is assigned, no schedule is built and the stored one stays.
C9_PreconditionFailure ==
    (DOMAIN employees = {} \/ DOMAIN shifts = {} \/ ~(start_date < end_date))
        => /\ pc \in {"start", "rejected"}
           /\ schedule = EmptyDict
           /\ log = <<>>
           /\ stored = PrevSchedule
           /\ saved = 0

C9_Witness ==
    /\ pc = "rejected"
    /\ DOMAIN employees # {}
    /\ DOMAIN shifts # {}
    /\ start_date = end_date

\* C10: a run that has started always reaches the end of phase 4 and stores
\* its schedule, however short the shifts stay.
C10_Terminates ==
    (pc = "p1") ~> (pc = "done" /\ stored = schedule)

\* Scenario C: the trigger shift got nobody, the dependent shift got one of
\* the two it then needs, and the run is over.
C10_Witness ==
    /\ pc = "done"
    /\ \E d \in Dates :
          /\ "EE" \in Range(shift_list_today(d))
          /\ shift_count(schedule, d, "EE") = 0
          /\ shift_count(schedule, d, "E") = 1
          /\ get_required_staff("E", d, schedule) = 2

\* C11: every assignment a fixed-role employee holds, whatever phase wrote it,
\* is to the designated fixed shift.
C11_FixedOnlyOnFixedShift ==
    \A d \in Dates : \A e \in Assigned(schedule, d) :
        e \in Range(fixed_early_early_employees)
            => schedule[d].assignments[e] = fixed_early_early_shift

\* C12: with the weekday-exclusion flag set, the excluded shift has no
\* assignment and count 0 on every Monday of the range, during the run and
\* in the stored result.
C12_ExcludedWeekdayEmpty ==
    monday_no_early_early =>
        \A d \in Dates : (d % 7 = 0) =>
            /\ Holders(schedule, d, "EE") = {}
            /\ DictGet(schedule[d].shift_counts, "EE", 0) = 0
            /\ (pc = "done" =>
                   /\ Holders(stored, d, "EE") = {}
                   /\ DictGet(stored[d].shift_counts, "EE", 0) = 0)

\* The run is over; on a Monday a fixed-role employee who could work stayed
\* idle and the excluded shift is empty, while it is staffed on another date.
C12_Witness ==
    /\ pc = "done"
    /\ monday_no_early_early
    /\ "EE" \in DOMAIN shifts
    /\ \E d \in Dates : \E e \in DOMAIN employees :
          /\ d % 7 = 0
          /\ e \in Range(fixed_early_early_employees)
          /\ e \notin Assigned(schedule, d)
          /\ ~RestsOn(e, d)
          /\ \E d2 \in Dates : schedule[d2].assignments
                                   = [x \in {e} |-> "EE"]

(***************************************************************************)
(* Rotation: the terms the properties below are stated in.                 *)
(***************************************************************************)
\* The rest weekday of the employee lies strictly after the last worked date
\* and up to the date.
JustRested(emp_id, date) ==
    LET last == employee_shift_cycle[emp_id].last_work_date
    IN  /\ last # NoDate
        /\ employees[emp_id].rest_day # ""
        /\ \E c \in (last + 1)..date :
              WeekdayNames[(c % 7) + 1] = employees[emp_id].rest_day

\* The two categories that are each other's opposite.
Rotating(type) == type \in {"zao", "wan"}

Opposite(type) == IF type = "zao" THEN "wan" ELSE "zao"

FixedRole(emp_id) ==
    \E i \in DOMAIN fixed_early_early_employees :
        fixed_early_early_employees[i] = emp_id

\* The score without its rotation term, times 10.
OtherTerms(emp_id, shift_id) ==
    employee_workload[emp_id].days * 100
    + (IF shifts[shift_id].required_skills = {} THEN 0
       ELSE IF LacksSkill(emp_id, shift_id) THEN 500 ELSE -100)
    + (IF shift_id \in employees[emp_id].preferred_shifts THEN -50 ELSE 0)
    + employee_workload[emp_id].hours

Short(date, shift_id) ==
    shift_count(schedule, date, shift_id)
        < get_required_staff(shift_id, date, schedule)

\* The step assigns the employee on the date.
Assigns(emp_id, date) ==
    /\ date \in DOMAIN schedule
    /\ emp_id \notin Assigned(schedule, date)
    /\ date \in DOMAIN schedule'
    /\ emp_id \in Assigned(schedule', date)

\* C13: an employee outside the fixed list whose current category is early
\* and whose rest weekday has passed since the last worked date, assigned on
\* a date on which an early shift and a late shift are both short and score
\* the same for the employee apart from the rotation term, gets a late shift.
C13_RestedEmployeeTakesOpposite ==
    [][\A e \in DOMAIN employees : \A d \in Dates :
          ( /\ Assigns(e, d)
            /\ ~FixedRole(e)
            /\ employee_shift_cycle[e].current_type = "zao"
            /\ JustRested(e, d)
            /\ \E a \in Range(shift_list_today(d)) :
                  \E b \in Range(shift_list_today(d)) :
                     /\ get_shift_type(a) = "zao"
                     /\ get_shift_type(b) = "wan"
                     /\ Short(d, a)
                     /\ Short(d, b)
                     /\ OtherTerms(e, a) = OtherTerms(e, b) )
          => get_shift_type(schedule'[d].assignments[e]) = "wan"]_vars

\* The dates the employee works in the schedule.
WorkedDates(emp_id) == {d \in Dates : emp_id \in Assigned(schedule, d)}

\* C14 as claimed: in the finished schedule, between two consecutive worked
\* dates of an employee outside the fixed list, the category of the shift
\* goes from a rotating category to its opposite only if the rest weekday
\* lies strictly after the first date and up to the second.
C14_FlipOnlyAfterRest ==
    (pc = "done") =>
        \A e \in DOMAIN employees : \A d1 \in WorkedDates(e) :
            \A d2 \in WorkedDates(e) :
                ( /\ ~FixedRole(e)
                  /\ d1 < d2
                  /\ \A d \in WorkedDates(e) : ~(d1 < d /\ d < d2)
                  /\ Rotating(get_shift_type(schedule[d1].assignments[e]))
                  /\ get_shift_type(schedule[d2].assignments[e])
                        = Opposite(get_shift_type(schedule[d1].assignments[e])) )
                => /\ employees[e].rest_day # ""
                   /\ \E c \in (d1 + 1)..d2 :
                         WeekdayNames[(c % 7) + 1] = employees[e].rest_day

\* C14 as amended: within a run the recorded category of an employee outside
\* the fixed list, once set, changes only in a step that assigns the employee
\* on a date such that the rest weekday lies strictly after the last
\* recorded worked date and up to that date.
C14_RecordedCategoryKept ==
    [][\A e \in DOMAIN employee_shift_cycle :
          ( /\ run' = run
            /\ ~FixedRole(e)
            /\ employee_shift_cycle[e].current_type # NoType
            /\ employee_shift_cycle'[e].current_type
                  # employee_shift_cycle[e].current_type )
          => \E d \in Dates : Assigns(e, d) /\ JustRested(e, d)]_vars

\* An employee outside the fixed list whose first assignment of the run was
\* to a shift of a rotating category now has the opposite category recorded.
C14_Witness ==
    \E e \in DOMAIN employee_shift_cycle : \E i \in DOMAIN log :
        /\ ~FixedRole(e)
        /\ log[i].emp = e
        /\ \A j \in 1..(i - 1) : log[j].emp # e
        /\ Rotating(get_shift_type(log[i].shift))
        /\ employee_shift_cycle[e].current_type
              = Opposite(get_shift_type(log[i].shift))

\* The employees without an assignment on the date whom neither the rest
\* weekday, nor an unavailable date, nor the skills keep from the shift.
Eligible(date, shift_id) ==
    {e \in DOMAIN employees :
        /\ e \notin Assigned(schedule, date)
        /\ ~RestsOn(e, date)
        /\ ~LacksSkill(e, shift_id)}

\* The shift the single-candidate pick is about to be tried for, if any.
PickingFor ==
    IF pc = "p2w" \/ (pc = "p3" /\ date_str <= end_date
                        /\ shift_i <= Len(shift_list_today(date_str)))
    THEN {shift_list_today(date_str)[shift_i]}
    ELSE {}

C16_StoredOnceAfterPhase4 ==
    /\ [](saved = IF pc = "done" THEN run ELSE IF run = 0 THEN 0 ELSE run - 1)
    /\ [](pc = "done" =>
            /\ stored = schedule
            /\ DOMAIN stored = start_date..end_date)
    /\ [][(stored' # stored \/ saved' # saved) =>
            /\ pc = "save"
            /\ date_str > end_date
            /\ pc' = "done"
            /\ saved' = saved + 1
            /\ stored' = schedule
            /\ schedule' = schedule]_vars

\* The second run has stored its schedule, in which a shift is short.
C16_Witness ==
    /\ pc = "done"
    /\ run = 2
    /\ saved = 2
    /\ stored # PrevSchedule
    /\ log # <<>>
    /\ \E d \in Dates : ShortOn(d)

\* The ids and dates check_conflicts is asked about: known and unknown ones,
\* dates of the schedule and dates next to it.
AnyEmpId == Range(EmpOrder) \cup Range(fixed_early_early_employees)

AnyShiftId == DOMAIN ShiftName

AnyDate == (start_date - 1)..(end_date + 1)

\* C17: check_conflicts returns no conflict exactly when the employee and the
\* shift are known, the date is neither the rest weekday nor an unavailable
\* date of the employee, the required skills are empty or met, and the
\* employee holds no assignment on the date; and a step that only checks and
\* writes no assignment leaves schedule, workload and rotation state alone.
C17_CheckConflictsExact ==
    /\ [](\A e \in AnyEmpId : \A s \in AnyShiftId : \A d \in AnyDate :
            (check_conflicts(e, s, d, schedule) = {})
               <=> ( /\ e \in DOMAIN employees
                     /\ s \in DOMAIN shifts
                     /\ ~RestsOn(e, d)
                     /\ ~LacksSkill(e, s)
                     /\ ~(d \in DOMAIN schedule /\ e \in Assigned(schedule, d)) ))
    /\ [][(log' = log /\ run' = run) =>
             UNCHANGED <<schedule, employee_workload, employee_shift_cycle>>]_vars

\* Phase 4 is checking: one employee is free of conflicts for a shift, one is
\* refused only for the assignment already held on the date, one is refused
\* for two reasons at once, and one id of the fixed list is unknown.
C17_Witness ==
    /\ pc = "p4e"
    /\ \E e \in AnyEmpId : e \notin DOMAIN employees
    /\ \E e \in DOMAIN employees : \E s \in DOMAIN shifts : \E d \in Dates :
          check_conflicts(e, s, d, schedule) = {}
    /\ \E e \in DOMAIN employees : \E s \in DOMAIN shifts : \E d \in Dates :
          check_conflicts(e, s, d, schedule) = {"assigned"}
    /\ \E e \in DOMAIN employees : \E s \in DOMAIN shifts : \E d \in Dates :
          Cardinality(check_conflicts(e, s, d, schedule)) >= 2

\* The place of an employee in the enumeration order of the employees.
Pos(emp_id) == CHOOSE i \in DOMAIN EmpOrder : EmpOrder[i] = emp_id

ScoreNow(emp_id, shift_id, date) ==
    get_employee_score(emp_id, shift_id, date, employee_workload)

\* C18: a step of phase 2 or 3 that writes an assignment gives the shift to
\* an employee who had no assignment on the date and no conflict, whose score
\* was not above that of any other such employee, and who comes first in the
\* enumeration order among those with that score.
C18_MinimalScorePicked ==
    [][\A x \in {LogEntry(ph, d, e, s) :
                    ph \in {2, 3}, d \in Dates,
                    e \in DOMAIN employees, s \in DOMAIN shifts} :
          (log' = Append(log, x)) =>
              /\ x.emp \in Eligible(x.date, x.shift)
              /\ \A f \in Eligible(x.date, x.shift) \ {x.emp} :
                    \/ ScoreNow(x.emp, x.shift, x.date)
                          < ScoreNow(f, x.shift, x.date)
                    \/ /\ ScoreNow(x.emp, x.shift, x.date)
                             = ScoreNow(f, x.shift, x.date)
                       /\ Pos(x.emp) < Pos(f)]_vars

\* A pick has been made and the next one is due: the lowest score is shared
\* by two eligible employees, and an eligible employee who comes before both
\* in the enumeration order has a higher score.
C18_Witness ==
    /\ log # <<>>
    /\ log[Len(log)].phase \in {2, 3}
    /\ \E s \in PickingFor :
          /\ Short(date_str, s)
          /\ \E e \in Eligible(date_str, s) : \E f \in Eligible(date_str, s) :
                \E g \in Eligible(date_str, s) :
                   /\ e # f
                   /\ ScoreNow(e, s, date_str) = ScoreNow(f, s, date_str)
                   /\ \A h \in Eligible(date_str, s) :
                         ScoreNow(e, s, date_str) <= ScoreNow(h, s, date_str)
                   /\ Pos(g) < Pos(e)
                   /\ Pos(g) < Pos(f)
                   /\ ScoreNow(g, s, date_str) > ScoreNow(e, s, date_str)

\* The category of the shift the step gives the employee on the date.
NewCategory(emp_id, date) == get_shift_type(schedule'[date].assignments[emp_id])

\* C19 as claimed: when a step assigns an employee outside the fixed list,
\* the recorded category becomes the shift's category if the employee just
\* rested and the recorded category is rotating; otherwise it becomes the
\* shift's category only if it was unset and else stays; the last worked
\* date becomes the date.
C19_UpdateOnlyWhenRotating ==
    [][\A e \in DOMAIN employees : \A d \in Dates :
          (Assigns(e, d) /\ ~FixedRole(e)) =>
              /\ employee_shift_cycle'[e].last_work_date = d
              /\ employee_shift_cycle'[e].current_type =
                    IF JustRested(e, d)
                       /\ Rotating(employee_shift_cycle[e].current_type)
                    THEN NewCategory(e, d)
                    ELSE IF employee_shift_cycle[e].current_type = NoType
                    THEN NewCategory(e, d)
                    ELSE employee_shift_cycle[e].current_type]_vars

\* C19 as amended: the recorded category becomes the shift's category if
\* the employee just rested, whatever the recorded category; otherwise it
\* becomes the shift's category only if it was unset and else stays; the
\* last worked date becomes the date.
C19_UpdateAfterEveryRest ==
    [][\A e \in DOMAIN employees : \A d \in Dates :
          (Assigns(e, d) /\ ~FixedRole(e)) =>
              /\ employee_shift_cycle'[e].last_work_date = d
              /\ employee_shift_cycle'[e].current_type =
                    IF JustRested(e, d)
                    THEN NewCategory(e, d)
                    ELSE IF employee_shift_cycle[e].current_type = NoType
                    THEN NewCategory(e, d)
                    ELSE employee_shift_cycle[e].current_type]_vars

\* An employee outside the fixed list whose first assignment of the run
\* recorded a non-rotating category has, after a rest, a rotating category
\* recorded.
C19_Witness ==
    \E e \in DOMAIN employee_shift_cycle : \E i \in DOMAIN log :
        /\ ~FixedRole(e)
        /\ log[i].emp = e
        /\ \A j \in 1..(i - 1) : log[j].emp # e
        /\ ~Rotating(get_shift_type(log[i].shift))
        /\ employee_shift_cycle[e].rested
        /\ Rotating(employee_shift_cycle[e].current_type)

\* The rotation term of the score the code computes, times 10.
RotationTerm(emp_id, shift_id, date) ==
    ScoreNow(emp_id, shift_id, date) - OtherTerms(emp_id, shift_id)

\* The employees outside the fixed list who are scored for the shift.
Scored(shift_id) == {e \in Eligible(date_str, shift_id) : ~FixedRole(e)}

\* C20 as claimed: the rotation term is -5 when the employee just rested,
\* the recorded category is rotating and the shift's category is its
\* opposite; otherwise -3 when the recorded category is set and is the
\* shift's category, also just after a rest; otherwise 0.
C20_RotationTermFlat ==
    \A s \in PickingFor : \A e \in Scored(s) :
        RotationTerm(e, s, date_str) =
            IF /\ JustRested(e, date_str)
               /\ Rotating(employee_shift_cycle[e].current_type)
               /\ get_shift_type(s) = Opposite(employee_shift_cycle[e].current_type)
            THEN -50
            ELSE IF /\ employee_shift_cycle[e].current_type # NoType
                    /\ get_shift_type(s) = employee_shift_cycle[e].current_type
            THEN -30
            ELSE 0

\* C20 as amended: when the employee just rested and the recorded category
\* is rotating, the term is -5 for a shift of the opposite category and 0
\* for any other shift, also one of the recorded category; otherwise it is
\* -3 when the recorded category is set and is the shift's category, and 0
\* in every other case.
C20_RotationTermNested ==
    \A s \in PickingFor : \A e \in Scored(s) :
        RotationTerm(e, s, date_str) =
            IF /\ JustRested(e, date_str)
               /\ Rotating(employee_shift_cycle[e].current_type)
            THEN (IF get_shift_type(s)
                       = Opposite(employee_shift_cycle[e].current_type)
                  THEN -50 ELSE 0)
            ELSE IF /\ employee_shift_cycle[e].current_type # NoType
                    /\ get_shift_type(s) = employee_shift_cycle[e].current_type
            THEN -30
            ELSE 0

\* A shift is being filled for which two kinds of employee are scored: one
\* who just rested and whose recorded rotating category is the shift's, and
\* one who just rested and whose recorded category is the opposite.
C20_Witness ==
    \E s \in PickingFor :
        /\ Short(date_str, s)
        /\ \E e \in Scored(s) :
              /\ JustRested(e, date_str)
              /\ employee_shift_cycle[e].current_type = get_shift_type(s)
              /\ Rotating(get_shift_type(s))
        /\ \E e \in Scored(s) :
              /\ JustRested(e, date_str)
              /\ Rotating(get_shift_type(s))
              /\ employee_shift_cycle[e].current_type
                    = Opposite(get_shift_type(s))

\* The phase-4 employee whose short shifts are being ordered, if any.
Phase4Employee ==
    IF pc = "p4e" /\ emp_i <= Len(unassigned_employees)
    THEN {unassigned_employees[emp_i]}
    ELSE {}

\* C21: for an employee of the fixed list the score of a pick has no rotation
\* term, phase 4 tries the short shifts in the order it uses for an employee
\* without rotation state (the order of the shift list), and within a run no
\* step changes a recorded category of the employee once it is set.
C21_FixedRoleExempt ==
    /\ [](\A s \in PickingFor : \A e \in Eligible(date_str, s) :
            FixedRole(e) => ScoreNow(e, s, date_str) = OtherTerms(e, s))
    /\ [](\A e \in Phase4Employee :
            FixedRole(e) =>
                ordered_shortages(e, date_str) = shift_shortages(date_str))
    /\ [][\A e \in DOMAIN employee_shift_cycle :
             ( /\ FixedRole(e)
               /\ run' = run
               /\ employee_shift_cycle[e].current_type # NoType )
             => employee_shift_cycle'[e].current_type
                   = employee_shift_cycle[e].current_type]_vars

\* The number of the weekday, Monday being 0, or -1 for no weekday.
WeekdayNumber(name) ==
    IF name = "Mon" THEN 0 ELSE IF name = "Tue" THEN 1
    ELSE IF name = "Wed" THEN 2 ELSE IF name = "Thu" THEN 3
    ELSE IF name = "Fri" THEN 4 ELSE IF name = "Sat" THEN 5
    ELSE IF name = "Sun" THEN 6 ELSE -1

\* C22: check_if_rested is true exactly when the last worked date is set,
\* the employee has a rest weekday and some day after the last worked date
\* and not after the date falls on that weekday; it is false for a date not
\* after the last worked date.
C22_JustRestedExact ==
    \A e \in DOMAIN employee_shift_cycle : \A d \in AnyDate :
        LET last == employee_shift_cycle[e].last_work_date
        IN  /\ check_if_rested(e, d)
               <=> ( /\ last # NoDate
                     /\ employees[e].rest_day # ""
                     /\ \E c \in 0..(end_date + 1) :
                           /\ last < c
                           /\ c <= d
                           /\ c % 7 = WeekdayNumber(employees[e].rest_day) )
            /\ (last # NoDate /\ last >= d) => ~check_if_rested(e, d)

\* Somebody with a rest weekday has worked; of the dates after the last
\* worked date one is past the rest weekday and one is not, and the date
\* itself is the rest weekday for an employee who worked the day before.
C22_Witness ==
    /\ \E e \in DOMAIN employee_shift_cycle :
          LET last == employee_shift_cycle[e].last_work_date
          IN  /\ last # NoDate
              /\ employees[e].rest_day # ""
              /\ \E d1 \in AnyDate : \E d2 \in AnyDate :
                    /\ d1 > last
                    /\ d2 > last
                    /\ check_if_rested(e, d1)
                    /\ ~check_if_rested(e, d2)
    /\ \E e \in DOMAIN employee_shift_cycle :
          LET last == employee_shift_cycle[e].last_work_date
          IN  /\ last # NoDate
              /\ last + 1 \in AnyDate
              /\ (last + 1) % 7 = WeekdayNumber(employees[e].rest_day)

\* The employees phase 1 has assigned on the date, in the order of the
\* assignments.
Phase1Picks(date) ==
    LET entries == SelectSeq(log, LAMBDA x : x.phase = 1 /\ x.date = date)
    IN  [i \in 1..Len(entries) |-> entries[i].emp]

\* The employees of the fixed list, in list order, whom nothing keeps from
\* the fixed shift on the date before anybody is assigned.
Phase1Passing(date) ==
    SelectSeq(fixed_early_early_employees,
              LAMBDA e : /\ e \in DOMAIN employees
                         /\ ~RestsOn(e, date)
                         /\ ~LacksSkill(e, "EE"))

Phase1Excluded(date) ==
    \/ "EE" \notin DOMAIN shifts
    \/ (date % 7 = 0 /\ monday_no_early_early)

FirstN(seq, n) == SubSeq(seq, 1, IF n < Len(seq) THEN n ELSE Len(seq))

OnlyPhase1SoFar == \A i \in DOMAIN log : log[i].phase = 1

\* C23: once phase 1 is over, the employees it assigned on a date are, in
\* order, the first employees of the fixed list who pass the conflict checks,
\* as many as the base required staff of the fixed shift allows, and nobody
\* on an excluded date; at the end of phase 1 they are the only holders of
\* the fixed shift, whose count is not above its base required staff.
C23_Phase1FillsInListOrder ==
    (pc \in {"p2", "p2w", "p3", "p4", "p4e", "save", "done"}) =>
        \A d \in Dates :
            /\ Phase1Picks(d) =
                  IF Phase1Excluded(d) THEN <<>>
                  ELSE FirstN(Phase1Passing(d), shifts["EE"].required_staff)
            /\ OnlyPhase1SoFar =>
                  /\ Holders(schedule, d, "EE") = Range(Phase1Picks(d))
                  /\ \A e \in Holders(schedule, d, "EE") : FixedRole(e)
                  /\ Assigned(schedule, d) = Holders(schedule, d, "EE")
                  /\ "EE" \in DOMAIN shifts =>
                        shift_count(schedule, d, "EE")
                           <= shifts["EE"].required_staff
                  /\ shift_count(schedule, d, "EE") = Len(Phase1Picks(d))

\* Phase 1 has just ended: on one date an employee of the list was passed
\* over for a conflict and a later one was assigned, and on one date the
\* fixed shift reached its required staff and left out an employee of the
\* list who could have worked.
C23_Witness ==
    /\ pc = "p2"
    /\ log # <<>>
    /\ OnlyPhase1SoFar
    /\ \E d \in Dates : \E i \in DOMAIN fixed_early_early_employees :
          \E j \in DOMAIN fixed_early_early_employees :
             /\ i < j
             /\ fixed_early_early_employees[i] \in DOMAIN employees
             /\ RestsOn(fixed_early_early_employees[i], d)
             /\ fixed_early_early_employees[j] \in Holders(schedule, d, "EE")
    /\ \E d \in Dates : \E e \in DOMAIN employees :
          /\ FixedRole(e)
          /\ ~RestsOn(e, d)
          /\ e \notin Assigned(schedule, d)
          /\ shift_count(schedule, d, "EE") = shifts["EE"].required_staff

\* The assignments phase 3 wrote in the given pass.
Phase3Fills(p) == {i \in DOMAIN log : log[i].phase = 3 /\ log[i].pass = p}

\* C24: phase 3 makes at most three passes; within a pass it writes at most
\* one assignment for a date and a shift, and only for a shift of the date's
\* list that is under its requirement when the step starts; and a new pass
\* starts only after a pass that wrote an assignment.
C24_Phase3Passes ==
    /\ [](iteration \in {0, 1, 2})
    /\ [](\A i \in DOMAIN log : \A j \in DOMAIN log :
            ( /\ i < j
              /\ log[i].phase = 3
              /\ log[j].phase = 3
              /\ log[i].pass = log[j].pass )
            => ~(log[i].date = log[j].date /\ log[i].shift = log[j].shift))
    /\ [][\A d \in Dates : \A s \in DOMAIN shifts :
             (Len(log') = Len(log) + 1
                /\ log'[Len(log')].phase = 3
                /\ log'[Len(log')].date = d
                /\ log'[Len(log')].shift = s)
             => /\ \E k \in DOMAIN shift_list_today(d) :
                      shift_list_today(d)[k] = s
                /\ Short(d, s)
                /\ log'[Len(log')].pass = iteration
                /\ iteration' = iteration]_vars
    /\ [][(run' = run /\ iteration' # iteration /\ pc = "p3") =>
             /\ iteration' = iteration + 1
             /\ Phase3Fills(iteration) # {}]_vars

\* Phase 3 is over after three passes that each wrote an assignment, and a
\* shift is still under its requirement although somebody could take it.
C24_Witness ==
    /\ pc = "p4"
    /\ Phase3Fills(0) # {}
    /\ Phase3Fills(1) # {}
    /\ Phase3Fills(2) # {}
    /\ \E d \in Dates : \E s \in DOMAIN shifts :
          Short(d, s) /\ Eligible(d, s) # {}

\* The place of a shift in the shift list.
ListIndex(shift_id) == CHOOSE k \in DOMAIN shift_list : shift_list[k] = shift_id

\* The shifts of the date's list that are short, each with its shortage.
ShortNow(date) ==
    {<<s, get_required_staff(s, date, schedule) - shift_count(schedule, date, s)>> :
        s \in {t \in Range(shift_list_today(date)) : Short(date, t)}}

\* 0 for a shift of the category phase 4 prefers for the employee, else 1:
\* the opposite of a rotating recorded category after a rest, the recorded
\* rotating category otherwise.
PreferenceKey(emp_id, shift_id, date) ==
    LET cur == employee_shift_cycle[emp_id].current_type
    IN  IF Rotating(cur)
           /\ get_shift_type(shift_id)
                 = (IF JustRested(emp_id, date) THEN Opposite(cur) ELSE cur)
        THEN 0 ELSE 1

\* x is tried before y when the short shifts are sorted by preference, then
\* by descending shortage, then by their place in the shift list.
SortedBefore(emp_id, date, x, y) ==
    \/ PreferenceKey(emp_id, x[1], date) < PreferenceKey(emp_id, y[1], date)
    \/ /\ PreferenceKey(emp_id, x[1], date) = PreferenceKey(emp_id, y[1], date)
       /\ x[2] > y[2]
    \/ /\ PreferenceKey(emp_id, x[1], date) = PreferenceKey(emp_id, y[1], date)
       /\ x[2] = y[2]
       /\ ListIndex(x[1]) < ListIndex(y[1])

\* The sequence lists the short shifts of the date, each once.
ListsShortShifts(ord, date) ==
    /\ Range(ord) = ShortNow(date)
    /\ Len(ord) = Cardinality(ShortNow(date))

\* The idle employees are in ascending order of (days, hours), those with
\* the same workload in enumeration order.
IdleOrderOK(seq, date) ==
    /\ Range(seq) = DOMAIN employees \ Assigned(schedule, date)
    /\ \A i \in DOMAIN seq : \A j \in DOMAIN seq :
          (i < j) =>
             \/ employee_workload[seq[i]].days < employee_workload[seq[j]].days
             \/ /\ employee_workload[seq[i]].days = employee_workload[seq[j]].days
                /\ employee_workload[seq[i]].hours < employee_workload[seq[j]].hours
             \/ /\ employee_workload[seq[i]] = employee_workload[seq[j]]
                /\ Pos(seq[i]) < Pos(seq[j])

\* What a step of phase 4 does with the employee whose turn it is: the
\* employees are taken in the order fixed when the date was entered, and the
\* employee gets the first short shift, in the order tried, that the
\* conflict checks allow, or nothing if there is none.
Phase4StepOK ==
    /\ (pc = "p4" /\ pc' = "p4e") =>
          /\ IdleOrderOK(unassigned_employees', date_str)
          /\ emp_i' = 1
    /\ (pc = "p4e" /\ pc' = "p4e") =>
          /\ emp_i' = emp_i + 1
          /\ unassigned_employees' = unassigned_employees
          /\ LET e == unassigned_employees[emp_i]
                 ord == ordered_shortages(e, date_str)
                 free == {k \in DOMAIN ord : e \in Eligible(date_str, ord[k][1])}
             IN  IF free = {}
                 THEN schedule' = schedule /\ log' = log
                 ELSE \E k \in free :
                         /\ \A j \in free : k <= j
                         /\ Holders(schedule', date_str, ord[k][1])
                               = Holders(schedule, date_str, ord[k][1]) \cup {e}
                         /\ Assigned(schedule', date_str)
                               = Assigned(schedule, date_str) \cup {e}
                         /\ Len(log') = Len(log) + 1
                         /\ log'[Len(log')].phase = 4

\* C25 as claimed: the idle employees are processed in ascending order of
\* (days, hours); for an employee with a rotating recorded category or with
\* no recorded category the short shifts are tried sorted by preferred
\* category, then by descending shortage; the employee gets the first shift
\* without conflict and no other.
C25_ShortagesAlwaysSorted ==
    /\ [](\A e \in Phase4Employee :
            LET ord == ordered_shortages(e, date_str)
            IN  /\ ListsShortShifts(ord, date_str)
                /\ (Rotating(employee_shift_cycle[e].current_type)
                      \/ employee_shift_cycle[e].current_type = NoType)
                   => \A p \in DOMAIN ord : \A q \in DOMAIN ord :
                         (p < q) => SortedBefore(e, date_str, ord[p], ord[q]))
    /\ [][Phase4StepOK]_vars

\* C25 as amended: the short shifts are sorted by preferred category and
\* then by descending shortage only for an employee whose recorded category
\* is rotating; for any other employee they are tried in the order of the
\* shift list.
C25_SortedOnlyWhenRotating ==
    /\ [](\A e \in Phase4Employee :
            LET ord == ordered_shortages(e, date_str)
            IN  /\ ListsShortShifts(ord, date_str)
                /\ \A p \in DOMAIN ord : \A q \in DOMAIN ord :
                      (p < q) =>
                         IF Rotating(employee_shift_cycle[e].current_type)
                         THEN SortedBefore(e, date_str, ord[p], ord[q])
                         ELSE ListIndex(ord[p][1]) < ListIndex(ord[q][1]))
    /\ [][Phase4StepOK]_vars

\* Phase 4 has assigned somebody and is at a later employee; of the idle
\* employees of the date, one with a rotating recorded category has the
\* short shifts in another order than the shift list, and one without a
\* rotating category has a smaller shortage before a larger one.
C25_Witness ==
    /\ pc = "p4e"
    /\ \E i \in DOMAIN log : log[i].phase = 4
    /\ \E e \in Range(unassigned_employees) :
          /\ Rotating(employee_shift_cycle[e].current_type)
          /\ ordered_shortages(e, date_str) # shift_shortages(date_str)
    /\ \E e \in Range(unassigned_employees) :
          LET ord == ordered_shortages(e, date_str)
          IN  /\ ~Rotating(employee_shift_cycle[e].current_type)
              /\ \E p \in DOMAIN ord : \E q \in DOMAIN ord :
                    p < q /\ ord[p][2] < ord[q][2]

\* C26: within a run, a step changes the recorded category or the last
\* worked date of an employee only if it also assigns that employee on some
\* date; every other step leaves the rotation state of everybody as it was.
C26_RotationChangesOnlyOnAssignment ==
    [][(run' = run) =>
          /\ \A e \in DOMAIN employee_shift_cycle :
                ( \/ employee_shift_cycle'[e].current_type
                        # employee_shift_cycle[e].current_type
                  \/ employee_shift_cycle'[e].last_work_date
                        # employee_shift_cycle[e].last_work_date )
                => \E d \in Dates : Assigns(e, d)
          /\ (schedule' = schedule) =>
                employee_shift_cycle' = employee_shift_cycle]_vars

\* The run is over: somebody's category was replaced after a rest, and
\* somebody who has worked was left idle on a later date on which a shift
\* stayed short, every attempt of phases 2 to 4 for that date having failed.
C26_Witness ==
    /\ pc = "done"
    /\ {2, 3, 4} \subseteq LogPhases
    /\ \E e \in DOMAIN employee_shift_cycle : employee_shift_cycle[e].rested
    /\ \E e \in DOMAIN employee_shift_cycle : \E d \in Dates :
          /\ employee_shift_cycle[e].last_work_date # NoDate
          /\ employee_shift_cycle[e].last_work_date < d
          /\ e \notin Assigned(schedule, d)
          /\ ShortOn(d)

\* C27: when the run is over no shift has, on any date, more holders than
\* its required staff resolved against the final schedule; the dependent
\* shift does not have two holders on a date on which the trigger shift has
\* one or more.
C27_NoShiftOverStaffed ==
    (pc = "done") =>
        \A d \in Dates :
            /\ \A s \in DOMAIN shifts :
                  Cardinality(Holders(schedule, d, s))
                     <= ExpectedStaff(s, d, schedule)
            /\ ~( /\ Cardinality(Holders(schedule, d, "E")) = 2
                  /\ Cardinality(Holders(schedule, d, "EE")) >= 1 )

\* C28: in every state of a run the last worked date of an employee is unset
\* if the employee holds no assignment and is otherwise the latest date on
\* which the employee holds one.
C28_LastWorkedIsLatest ==
    \A e \in DOMAIN employee_shift_cycle :
        IF WorkedDates(e) = {}
        THEN employee_shift_cycle[e].last_work_date = NoDate
        ELSE /\ employee_shift_cycle[e].last_work_date \in WorkedDates(e)
             /\ \A d \in WorkedDates(e) :
                   d <= employee_shift_cycle[e].last_work_date

\* The shift is not one the Monday rule takes off the date's list.
NotExcluded(date, shift_id) ==
    ~(shift_id = "EE" /\ date % 7 = 0 /\ monday_no_early_early)

\* C29: when phase 4 is over, no shift of a date's list that is under its
\* requirement, resolved against the final schedule, could be taken by an
\* employee who is idle on that date: every vacancy left is one that the
\* conflict checks refuse to every idle employee.
C29_NoFillableVacancyLeft ==
    (pc \in {"save", "done"}) =>
        \A d \in Dates : \A s \in DOMAIN shifts :
            ( /\ NotExcluded(d, s)
              /\ Cardinality(Holders(schedule, d, s))
                    < ExpectedStaff(s, d, schedule) )
            => Eligible(d, s) = {}

\* The run is over and phase 4 has assigned somebody; on a date a shift is
\* still short, with an idle employee the conflict checks keep from it, and
\* on that date phase 4 gave a shift to somebody else.
C29_Witness ==
    /\ pc = "done"
    /\ \E d \in Dates : \E s \in DOMAIN shifts : \E e \in DOMAIN employees :
          /\ NotExcluded(d, s)
          /\ Short(d, s)
          /\ e \notin Assigned(schedule, d)
          /\ \E i \in DOMAIN log : log[i].phase = 4 /\ log[i].date = d

\* The hours of the shifts the employee holds in the schedule.
HoursHeld(emp_id) ==
    LET times(s) == Cardinality({d \in WorkedDates(emp_id) :
                                    schedule[d].assignments[emp_id] = s})
        hours(s) == IF s \in DOMAIN shifts
                    THEN times(s) * shifts[s].duration_hours ELSE 0
    IN  hours("EE") + hours("E") + hours("L") + hours("Z") + hours("M")

\* C30: in every state of a run the days tracked for an employee are the
\* number of dates on which the employee holds an assignment, and the hours
\* tracked are the sum of the durations of the shifts held.
C30_WorkloadMatchesSchedule ==
    \A e \in DOMAIN employee_workload :
        /\ employee_workload[e].days = Cardinality(WorkedDates(e))
        /\ employee_workload[e].hours = HoursHeld(e)

\* The run is over, phases 2, 3 and 4 have all assigned, and somebody holds
\* two shifts of different durations.
C30_Witness ==
    /\ pc = "done"
    /\ {2, 3, 4} \subseteq LogPhases
    /\ \E e \in DOMAIN employees : \E d1 \in WorkedDates(e) :
          \E d2 \in WorkedDates(e) :
             shifts[schedule[d1].assignments[e]].duration_hours
                # shifts[schedule[d2].assignments[e]].duration_hours

====
